---- MODULE Spec2Model ----
(***************************************************************************)
(* who-chat: the room registry, the per-room users / messages /            *)
(* connections state behind three RwLocks, the WebSocket handler           *)
(* (on_open, on_message, on_close, handle_command) and the HTTP login and  *)
(* logout routes of src/src/main.rs.                                       *)
(*                                                                         *)
(* Threads.  start_websocket_server spawns ONE thread that runs            *)
(* ws::listen, so the WebSocket callbacks of all connections run one after *)
(* the other on thread "ws".  login and logout run on the HTTP server's    *)
(* worker threads (Https) and interleave with the callbacks and with each  *)
(* other.  A thread takes one step per lock acquisition: the step holds    *)
(* the code from one acquisition up to the next one.  broadcast takes one  *)
(* step per send, because two broadcasts that hold the connections read    *)
(* lock together interleave their sends.                                   *)
(*                                                                         *)
(* Sender::send queues the frame for the connection, or fails.  outbox[c]  *)
(* is the sequence of send attempts made on connection c, in order, each   *)
(* with the flag ok; the frames with ok = TRUE are the ones c receives.    *)
(*                                                                         *)
(* Uuid::new_v4() is the next unused number (message ids) or an unused     *)
(* element of LoginIds (user ids).  Timestamps are left out: no step reads *)
(* one.  Text is a sequence of tokens, so that starts_with('/'), the exact *)
(* match of handle_command and format!() are computed, not assumed.        *)
(*                                                                         *)
(* The registry maps a room id to a RoomState, whose identity (state) is   *)
(* that of its Arcs; a handler keeps the identity it was handed in rs.     *)
(* dropped counts the inbound frames on_message returned on without        *)
(* entering any of its if-let bodies.                                      *)
(***************************************************************************)
EXTENDS Integers, Sequences, FiniteSets, TLC

\* ------------------------------------------------------------------ bounds
MaxMsgs == 3
MaxReplies == 1
MaxFail == 1
MaxDrops == 1

Rooms == {"lobby", "dev"}
Conns == {1, 2}
Https == {"h1", "h2"}
Threads == {"ws"} \cup Https
\* the nicknames typed into the login form
Nicks == {"alice"}
\* identities a WebSocket client presents without having logged in
Identities == {<<"u1", "alice">>, <<"u2", "bob">>}
\* the pool Uuid::new_v4() draws user ids from in login
LoginIds == {"u3", "u4"}
LockNames == {"users", "messages", "connections"}

NoThread == "none"
Absent == "-"

VARIABLES rooms, users, messages, connections, lk, hs, outbox, th, sessions, failsLeft,
          dropped

vars == <<rooms, users, messages, connections, lk, hs, outbox, th, sessions, failsLeft,
          dropped>>

\* -------------------------------------------------------------------- text
\* format!("{} has joined the room", nickname)
JoinText(n) == <<n, "has joined the room">>

\* format!("{} has left the room", nickname)
LeaveText(n) == <<n, "has left the room">>

\* format!("Unknown command: {}", command)
UnknownText(command) == <<"Unknown command:">> \o command

\* content.starts_with('/')
StartsWithSlash(content) == Len(content) > 0 /\ content[1] = "/"

\* The inbound frames a client sends.  utf8: Message::into_text succeeds;
\* json: serde_json::from_str succeeds; has: what json.get("content") holds.
Texts == { <<"hi">>, <<"/", "clear">>, <<"/", "logout">>, <<"/", "Clear">>,
           <<"/", "clear", " ">>, <<"/">> }

Inbound ==
    { [utf8 |-> FALSE, json |-> FALSE, has |-> "none", content |-> <<>>],
      [utf8 |-> TRUE, json |-> FALSE, has |-> "none", content |-> <<>>],
      [utf8 |-> TRUE, json |-> TRUE, has |-> "none", content |-> <<>>],
      [utf8 |-> TRUE, json |-> TRUE, has |-> "number", content |-> <<>>] }
    \cup { [utf8 |-> TRUE, json |-> TRUE, has |-> "string", content |-> x] : x \in Texts }

\* if let Ok(text) .. if let Ok(json) .. if let Some(content) = ..as_str()
Usable(m) == m.utf8 /\ m.json /\ m.has = "string"

\* ---------------------------------------------------------------- messages
RECURSIVE SumLen(_)
SumLen(S) == IF S = {} THEN 0
             ELSE LET r == CHOOSE x \in S : TRUE
                  IN Len(messages[r]) + SumLen(S \ {r})

TotalMsgs == SumLen(Rooms)

\* Uuid::new_v4() of a ChatMessage: a number no message carries yet
NewMsgId == TotalMsgs + 1

ChatMessage(id, room_id, sender, content, message_type) ==
    [id |-> id, room_id |-> room_id, sender |-> sender, content |-> content,
     message_type |-> message_type]

User(id, nickname, room_id) == [id |-> id, nickname |-> nickname, room_id |-> room_id]

\* (mutant: the new element goes in at the front)
PushFront(v, x) == <<x>> \o v

\* Vec::push
Push(v, x) == Append(v, x)

\* HashMap<String, User>: the set of its values, each stored under its id
\* (mutant: the containment test always fails)
ContainsKeyNever(m, k) == FALSE

ContainsKey(m, k) == \E x \in m : x.id = k

Insert(m, u) == {x \in m : x.id # u.id} \cup {u}

Remove(m, k) == {x \in m : x.id # k}

\* ------------------------------------------------------------------ frames
\* A frame on the wire: type, id, sender, content, command (Absent, 0 or <<>>
\* where the json! literal has no such key).  of and via are bookkeeping, not
\* on the wire: the id of the history entry the frame was built from (0: none)
\* and the send site (replay, broadcast, reply).
WireType(message_type) ==
    CASE message_type = "UserMessage" -> "message"
      [] message_type = "SystemMessage" -> "system"
      [] message_type = "Command" -> "command"

ReplayFrame(msg) ==
    [type |-> WireType(msg.message_type), id |-> msg.id, sender |-> msg.sender,
     content |-> msg.content, command |-> Absent, of |-> msg.id, via |-> "replay"]

MessageFrame(msg) ==
    [type |-> "message", id |-> msg.id, sender |-> msg.sender,
     content |-> msg.content, command |-> Absent, of |-> msg.id, via |-> "broadcast"]

SystemFrame(content, of) ==
    [type |-> "system", id |-> 0, sender |-> Absent,
     content |-> content, command |-> Absent, of |-> of, via |-> "broadcast"]

CommandFrame(command) ==
    [type |-> "command", id |-> 0, sender |-> Absent,
     content |-> <<>>, command |-> command, of |-> 0, via |-> "reply"]

UnknownFrame(command) ==
    [type |-> "system", id |-> 0, sender |-> Absent,
     content |-> UnknownText(command), command |-> Absent, of |-> 0, via |-> "reply"]

NoFrame == [type |-> Absent, id |-> 0, sender |-> Absent,
            content |-> <<>>, command |-> Absent, of |-> 0, via |-> Absent]

\* ------------------------------------------------------------------- sends
RECURSIVE CountReplies(_)
CountReplies(s) == IF s = <<>> THEN 0
                   ELSE (IF Head(s).frame.via = "reply" THEN 1 ELSE 0) + CountReplies(Tail(s))

RECURSIVE SumReplies(_)
SumReplies(S) == IF S = {} THEN 0
                 ELSE LET c == CHOOSE x \in S : TRUE
                      IN CountReplies(outbox[c]) + SumReplies(S \ {c})

ReplyCount == SumReplies(Conns)

\* the results a send may have: Sender::send returns Err when the event
\* loop's queue is full or gone; failsLeft is how many more sends fail
SendResults == IF failsLeft > 0 THEN {TRUE, FALSE} ELSE {TRUE}

\* the sends left to fail after one with result ok
After(left, ok) == IF ok THEN left ELSE left - 1

\* connection.send(frame) with result ok
Send(box, c, frame, ok) == [box EXCEPT ![c] = Append(@, [frame |-> frame, ok |-> ok])]

\* the frames connection c receives
Received(c) == SelectSeq(outbox[c], LAMBDA e : e.ok)

\* ------------------------------------------------------------------- locks
Free == [w |-> NoThread, r |-> {}]

\* RwLock::read() returns
CanRead(r, n) == lk[r][n].w = NoThread

\* RwLock::write() returns
CanWrite(r, n) == lk[r][n].w = NoThread /\ lk[r][n].r = {}

\* ----------------------------------------------------------------- threads
Idle == [op |-> "idle", pc |-> "idle", conn |-> 0, room |-> "", user |-> "",
         nick |-> "", content |-> <<>>, payload |-> NoFrame, todo |-> <<>>, rs |-> 0]

\* a thread's locals on entering handler op
Enter(op, pc, conn, room, user, nick, content) ==
    [op |-> op, pc |-> pc, conn |-> conn, room |-> room, user |-> user,
     nick |-> nick, content |-> content, payload |-> NoFrame, todo |-> <<>>, rs |-> 0]

Busy == Cardinality({t \in Threads : th[t].pc # "idle"})

\* a handler that appends to a history starts only while the histories have
\* room for the entry of every running handler and its own
MayAppend == TotalMsgs + Busy + 1 <= MaxMsgs

\* ChatSocketHandler as built by start_websocket_server: empty strings
NewHandler == [st |-> "new", room_id |-> "", user_id |-> "", nickname |-> ""]

Init ==
    /\ rooms = {}
    /\ users = [r \in Rooms |-> {}]
    /\ messages = [r \in Rooms |-> <<>>]
    /\ connections = [r \in Rooms |-> <<>>]
    /\ lk = [r \in Rooms |-> [n \in LockNames |-> Free]]
    /\ hs = [c \in Conns |-> NewHandler]
    /\ outbox = [c \in Conns |-> <<>>]
    /\ th = [t \in Threads |-> Idle]
    /\ sessions = {}
    /\ failsLeft = 0
    /\ dropped = 0

\* ------------------------------------------------------------ RoomRegistry
\* HashMap<String, RoomState>: the set of its entries.  state is the identity
\* of the RoomState, that is of its three Arcs, which every clone shares; the
\* contents of the Arcs of room r's RoomState are users[r], messages[r] and
\* connections[r].
\* RoomState::new(): Arcs that no entry of the registry holds
RoomStateNew(reg) ==
    CHOOSE n \in 1 .. (Cardinality(reg) + 1) : \A e \in reg : e.state # n

\* (mutant: the entry is inserted whether or not the key is there)
get_or_create_room_always(reg, room_id) ==
    {e \in reg : e.id # room_id} \cup {[id |-> room_id, state |-> RoomStateNew(reg)]}

\* ChatState::get_or_create_room: under rooms.write(), insert if absent; the
\* registry it leaves
get_or_create_room(reg, room_id) ==
    IF \E e \in reg : e.id = room_id THEN reg
    ELSE reg \cup {[id |-> room_id, state |-> RoomStateNew(reg)]}

\* rooms.get(room_id).unwrap().clone()
Get(reg, room_id) == (CHOOSE e \in reg : e.id = room_id).state

\* let room_state = CHAT_STATE.get_or_create_room(..): handler h holds the clone
Holding(h, reg) == [h EXCEPT !.rs = Get(reg, h.room)]

\* --------------------------------------------------------------- broadcast
\* the guards a handler still holds while it broadcasts: on_open, login and
\* logout keep users and messages write-locked to the end of their scope
HeldAcrossBroadcast(op) ==
    IF op \in {"on_open", "login", "logout"} THEN {"users", "messages"} ELSE {}

\* the locks of room r once thread t's broadcast has returned and its handler
\* with it: the connections read guard and every guard of the handler drop
Released(t, r) ==
    [lk EXCEPT ![r] = [n \in LockNames |->
        IF n \in HeldAcrossBroadcast(th[t].op) THEN Free
        ELSE IF n = "connections" THEN [lk[r][n] EXCEPT !.r = @ \ {t}]
        ELSE lk[r][n]]]

\* the cookies login has set reach the client with its response
Responded(t) ==
    IF th[t].op = "login"
    THEN sessions \cup {User(th[t].user, th[t].nick, th[t].room)}
    ELSE sessions

\* (mutant: one connection list shared by every room)
ReceiversOfEveryRoom(r) == connections["lobby"] \o connections["dev"]

\* (mutant: the loop skips the first connection of the list)
ReceiversButFirst(r) == IF connections[r] = <<>> THEN <<>> ELSE Tail(connections[r])

\* connections.iter(): the connections broadcast sends to, in list order
Receivers(r) == connections[r]

\* RoomState::broadcast: self.connections.read(); with no connection registered
\* the loop is over at once
BroadcastBegin(t) ==
    LET r == th[t].room IN
    /\ th[t].pc = "bcast"
    /\ CanRead(r, "connections")
    /\ IF Receivers(r) = <<>>
       THEN /\ lk' = Released(t, r)
            /\ sessions' = Responded(t)
            /\ th' = [th EXCEPT ![t] = Idle]
       ELSE /\ lk' = [lk EXCEPT ![r]["connections"].r = @ \cup {t}]
            /\ th' = [th EXCEPT ![t].pc = "send", ![t].todo = Receivers(r)]
            /\ UNCHANGED sessions
    /\ UNCHANGED <<rooms, users, messages, connections, hs, outbox, failsLeft, dropped>>

\* (mutant: connection.send(msg)? leaves the loop at the first failed send)
RestUnlessFailed(todo, ok) == IF ok THEN Tail(todo) ELSE <<>>

\* let _ = connection.send(msg): the result is thrown away and the loop goes
\* on with the connections that follow
Rest(todo, ok) == Tail(todo)

\* one turn of the loop; after the last one broadcast returns and the handler
\* returns
BroadcastSend(t) ==
    LET r == th[t].room IN
    /\ th[t].pc = "send"
    /\ \E ok \in SendResults :
          /\ outbox' = Send(outbox, Head(th[t].todo), th[t].payload, ok)
          /\ failsLeft' = After(failsLeft, ok)
          /\ IF Rest(th[t].todo, ok) = <<>>
             THEN /\ lk' = Released(t, r)
                  /\ sessions' = Responded(t)
                  /\ th' = [th EXCEPT ![t] = Idle]
             ELSE /\ th' = [th EXCEPT ![t].todo = Rest(@, ok)]
                  /\ UNCHANGED <<lk, sessions>>
    /\ UNCHANGED <<rooms, users, messages, connections, hs, dropped>>

\* ----------------------------------------------------------------- on_open
\* what the client's handshake may carry: an identity of its own making, or
\* the cookies a login issued
Presentable == Identities \cup {<<s.id, s.nickname>> : s \in sessions}

\* lines 289-290: ChatSocketHandler::new from the handshake, get_or_create_room
\* (connection ids are handed out in the order the connections open)
OnOpenStart(c, r, ident) ==
    /\ th["ws"].pc = "idle"
    /\ hs[c].st = "new"
    /\ \A d \in Conns : d < c => hs[d].st # "new"
    /\ MayAppend
    /\ hs' = [hs EXCEPT ![c] = [st |-> "open", room_id |-> r,
                                user_id |-> ident[1], nickname |-> ident[2]]]
    /\ rooms' = get_or_create_room(rooms, r)
    /\ th' = [th EXCEPT !["ws"] = Holding(Enter("on_open", "open_reg", c, r, ident[1], ident[2], <<>>), rooms')]
    /\ UNCHANGED <<users, messages, connections, lk, outbox, sessions, failsLeft, dropped>>

\* (mutant: the sender is pushed a second time)
OnOpenRegisterTwice ==
    LET r == th["ws"].room IN
    /\ th["ws"].pc = "open_reg"
    /\ CanWrite(r, "connections")
    /\ connections' = [connections EXCEPT ![r] = Push(Push(@, th["ws"].conn), th["ws"].conn)]
    /\ th' = [th EXCEPT !["ws"].pc = "open_replay"]
    /\ UNCHANGED <<rooms, users, messages, lk, hs, outbox, sessions, failsLeft, dropped>>

\* (mutant: no block around the push, the connections guard lives on)
OnOpenRegisterKept ==
    LET r == th["ws"].room IN
    /\ th["ws"].pc = "open_reg"
    /\ CanWrite(r, "connections")
    /\ connections' = [connections EXCEPT ![r] = Push(@, th["ws"].conn)]
    /\ lk' = [lk EXCEPT ![r]["connections"].w = "ws"]
    /\ th' = [th EXCEPT !["ws"].pc = "open_replay"]
    /\ UNCHANGED <<rooms, users, messages, hs, outbox, sessions, failsLeft, dropped>>

\* lines 293-296: connections.write(); push; the guard drops
OnOpenRegister ==
    LET r == th["ws"].room IN
    /\ th["ws"].pc = "open_reg"
    /\ CanWrite(r, "connections")
    /\ connections' = [connections EXCEPT ![r] = Push(@, th["ws"].conn)]
    /\ th' = [th EXCEPT !["ws"].pc = "open_replay"]
    /\ UNCHANGED <<rooms, users, messages, lk, hs, outbox, sessions, failsLeft, dropped>>

\* self.sender.send of each history entry in order; the sends whose index is
\* in failed return Err
RECURSIVE Replay(_, _, _, _, _)
Replay(box, c, history, failed, i) ==
    IF i > Len(history) THEN box
    ELSE Replay(Send(box, c, ReplayFrame(history[i]), i \notin failed),
                c, history, failed, i + 1)

\* lines 299-314: messages.read(); replay; the guard drops
OnOpenReplay ==
    LET r == th["ws"].room IN
    /\ th["ws"].pc = "open_replay"
    /\ CanRead(r, "messages")
    /\ \E failed \in SUBSET (1 .. Len(messages[r])) :
          /\ Cardinality(failed) <= failsLeft
          /\ outbox' = Replay(outbox, th["ws"].conn, messages[r], failed, 1)
          /\ failsLeft' = failsLeft - Cardinality(failed)
    /\ th' = [th EXCEPT !["ws"].pc = "open_users"]
    /\ UNCHANGED <<rooms, users, messages, connections, lk, hs, sessions, dropped>>

\* lines 318-324: users.write(); if the key is there the scope ends, else insert
OnOpenUsers ==
    LET r == th["ws"].room
        u == th["ws"].user
    IN
    /\ th["ws"].pc = "open_users"
    /\ CanWrite(r, "users")
    /\ IF ContainsKey(users[r], u)
       THEN /\ th' = [th EXCEPT !["ws"] = Idle]
            /\ UNCHANGED <<users, lk, failsLeft>>
       ELSE /\ users' = [users EXCEPT ![r] = Insert(@, User(u, th["ws"].nick, r))]
            /\ lk' = [lk EXCEPT ![r]["users"].w = "ws"]
            /\ th' = [th EXCEPT !["ws"].pc = "open_push"]
    /\ UNCHANGED <<rooms, messages, connections, hs, outbox, sessions, failsLeft, dropped>>

\* lines 327-341: messages.write() under the users guard; push the join entry
OnOpenPush ==
    LET r == th["ws"].room
        text == JoinText(th["ws"].nick)
    IN
    /\ th["ws"].pc = "open_push"
    /\ CanWrite(r, "messages")
    /\ messages' = [messages EXCEPT ![r] =
           Push(@, ChatMessage(NewMsgId, r, "System", text, "SystemMessage"))]
    /\ lk' = [lk EXCEPT ![r]["messages"].w = "ws"]
    /\ th' = [th EXCEPT !["ws"].pc = "bcast", !["ws"].payload = SystemFrame(text, NewMsgId)]
    /\ UNCHANGED <<rooms, users, connections, hs, outbox, sessions, failsLeft, dropped>>

\* -------------------------------------------------------------- on_message
\* (mutant: the directive is matched by prefix, command.starts_with("/clear"))
handle_command_by_prefix(command) ==
    CASE Len(command) >= 2 /\ command[2] = "clear" -> CommandFrame("clear")
      [] Len(command) >= 2 /\ command[2] = "logout" -> CommandFrame("logout")
      [] OTHER -> UnknownFrame(command)

\* handle_command: the reply for the raw command text, by exact match
handle_command(command) ==
    CASE command = <<"/", "clear">> -> CommandFrame("clear")
      [] command = <<"/", "logout">> -> CommandFrame("logout")
      [] OTHER -> UnknownFrame(command)

\* (mutant: a frame that does not parse is answered with an error frame)
OnMessageDropAnswered(c, m) ==
    /\ th["ws"].pc = "idle"
    /\ hs[c].st = "open"
    /\ ~Usable(m)
    /\ dropped < MaxDrops
    /\ dropped' = dropped + 1
    /\ outbox' = Send(outbox, c, UnknownFrame(m.content), TRUE)
    /\ UNCHANGED <<rooms, users, messages, connections, lk, hs, th, sessions, failsLeft>>

\* lines 349-352 fail: none of the nested if-let bodies runs and Ok(()) is
\* returned; dropped counts the frames that went this way
OnMessageDrop(c, m) ==
    /\ th["ws"].pc = "idle"
    /\ hs[c].st = "open"
    /\ ~Usable(m)
    /\ dropped < MaxDrops
    /\ dropped' = dropped + 1
    /\ UNCHANGED <<rooms, users, messages, connections, lk, hs, outbox, th, sessions, failsLeft>>

\* (mutant: the reply goes through room_state.broadcast)
RECURSIVE SendAll(_, _, _)
SendAll(box, todo, frame) ==
    IF todo = <<>> THEN box ELSE SendAll(Send(box, Head(todo), frame, TRUE), Tail(todo), frame)

OnMessageCommandBroadcast(c, m) ==
    /\ th["ws"].pc = "idle"
    /\ hs[c].st = "open"
    /\ Usable(m)
    /\ StartsWithSlash(m.content)
    /\ ReplyCount < MaxReplies
    /\ rooms' = get_or_create_room(rooms, hs[c].room_id)
    /\ outbox' = SendAll(outbox, connections[hs[c].room_id], handle_command(m.content))
    /\ UNCHANGED <<users, messages, connections, lk, hs, th, sessions, failsLeft, dropped>>

\* (mutant: the command is pushed onto the history before it is answered)
OnMessageCommandStored(c, m) ==
    /\ th["ws"].pc = "idle"
    /\ hs[c].st = "open"
    /\ Usable(m)
    /\ StartsWithSlash(m.content)
    /\ ReplyCount < MaxReplies
    /\ TotalMsgs < MaxMsgs
    /\ rooms' = get_or_create_room(rooms, hs[c].room_id)
    /\ messages' = [messages EXCEPT ![hs[c].room_id] =
           Push(@, ChatMessage(NewMsgId, hs[c].room_id, hs[c].nickname, m.content, "Command"))]
    /\ outbox' = Send(outbox, c, handle_command(m.content), TRUE)
    /\ UNCHANGED <<users, connections, lk, hs, th, sessions, failsLeft, dropped>>

\* lines 353-357: get_or_create_room, then handle_command sends its reply
OnMessageCommand(c, m) ==
    /\ th["ws"].pc = "idle"
    /\ hs[c].st = "open"
    /\ Usable(m)
    /\ StartsWithSlash(m.content)
    /\ ReplyCount < MaxReplies
    /\ rooms' = get_or_create_room(rooms, hs[c].room_id)
    /\ \E ok \in SendResults :
          /\ outbox' = Send(outbox, c, handle_command(m.content), ok)
          /\ failsLeft' = After(failsLeft, ok)
    /\ UNCHANGED <<users, messages, connections, lk, hs, th, sessions, dropped>>

\* lines 353, 360-367: get_or_create_room, the ChatMessage is built
OnMessageStart(c, m) ==
    /\ th["ws"].pc = "idle"
    /\ hs[c].st = "open"
    /\ Usable(m)
    /\ ~StartsWithSlash(m.content)
    /\ MayAppend
    /\ rooms' = get_or_create_room(rooms, hs[c].room_id)
    /\ th' = [th EXCEPT !["ws"] = Holding(Enter("on_message", "msg_push", c, hs[c].room_id,
                                         hs[c].user_id, hs[c].nickname, m.content), rooms')]
    /\ UNCHANGED <<users, messages, connections, lk, hs, outbox, sessions, failsLeft, dropped>>

\* lines 370-373: messages.write(); push; the guard drops; then broadcast
OnMessagePush ==
    LET r == th["ws"].room
        msg == ChatMessage(NewMsgId, r, th["ws"].nick, th["ws"].content, "UserMessage")
    IN
    /\ th["ws"].pc = "msg_push"
    /\ CanWrite(r, "messages")
    /\ messages' = [messages EXCEPT ![r] = Push(@, msg)]
    /\ th' = [th EXCEPT !["ws"].pc = "bcast", !["ws"].payload = MessageFrame(msg)]
    /\ UNCHANGED <<rooms, users, connections, lk, hs, outbox, sessions, failsLeft, dropped>>

\* ---------------------------------------------------------------- on_close
\* line 392: get_or_create_room
OnCloseStart(c) ==
    /\ th["ws"].pc = "idle"
    /\ hs[c].st = "open"
    /\ MayAppend
    /\ hs' = [hs EXCEPT ![c].st = "closed"]
    /\ rooms' = get_or_create_room(rooms, hs[c].room_id)
    /\ th' = [th EXCEPT !["ws"] = Holding(Enter("on_close", "close_dereg", c, hs[c].room_id,
                                         hs[c].user_id, hs[c].nickname, <<>>), rooms')]
    /\ UNCHANGED <<users, messages, connections, lk, outbox, sessions, failsLeft, dropped>>

\* (mutant: retain keeps every connection)
RetainAll(conns, c) == conns

\* line 392, on_close called once more for a connection it has run for
OnCloseAgain(c) ==
    /\ th["ws"].pc = "idle"
    /\ hs[c].st = "closed"
    /\ MayAppend
    /\ hs' = [hs EXCEPT ![c].st = "reclosed"]
    /\ rooms' = get_or_create_room(rooms, hs[c].room_id)
    /\ th' = [th EXCEPT !["ws"] = Holding(Enter("on_close", "close_dereg", c, hs[c].room_id,
                                         hs[c].user_id, hs[c].nickname, <<>>), rooms')]
    /\ UNCHANGED <<users, messages, connections, lk, outbox, sessions, failsLeft, dropped>>

\* connections.retain(|conn| conn.connection_id() != self.sender.connection_id())
Retain(conns, c) == SelectSeq(conns, LAMBDA x : x # c)

\* (mutant: no block around the retain, the connections guard lives on)
OnCloseDeregisterKept ==
    LET r == th["ws"].room IN
    /\ th["ws"].pc = "close_dereg"
    /\ CanWrite(r, "connections")
    /\ connections' = [connections EXCEPT ![r] = Retain(@, th["ws"].conn)]
    /\ lk' = [lk EXCEPT ![r]["connections"].w = "ws"]
    /\ th' = [th EXCEPT !["ws"].pc = "close_check"]
    /\ UNCHANGED <<rooms, users, messages, hs, outbox, sessions, failsLeft, dropped>>

\* lines 395-398: connections.write(); retain; the guard drops
OnCloseDeregister ==
    LET r == th["ws"].room IN
    /\ th["ws"].pc = "close_dereg"
    /\ CanWrite(r, "connections")
    /\ connections' = [connections EXCEPT ![r] = Retain(@, th["ws"].conn)]
    /\ th' = [th EXCEPT !["ws"].pc = "close_check"]
    /\ UNCHANGED <<rooms, users, messages, lk, hs, outbox, sessions, failsLeft, dropped>>

\* lines 403-406: the count of registered connections whose connection_id is
\* the closing connection's own is 0
is_last_connection(conns, c) ==
    Cardinality({i \in DOMAIN conns : conns[i] = c}) = 0

\* lines 401-409: connections.read(); the check; the guard drops
OnCloseCheck ==
    LET r == th["ws"].room IN
    /\ th["ws"].pc = "close_check"
    /\ CanRead(r, "connections")
    /\ IF is_last_connection(connections[r], th["ws"].conn)
       THEN th' = [th EXCEPT !["ws"].pc = "close_users"]
       ELSE th' = [th EXCEPT !["ws"] = Idle]
    /\ UNCHANGED <<rooms, users, messages, connections, lk, hs, outbox, sessions, failsLeft, dropped>>

\* lines 411-414: users.write(); remove; the guard drops
OnCloseUsers ==
    LET r == th["ws"].room IN
    /\ th["ws"].pc = "close_users"
    /\ CanWrite(r, "users")
    /\ users' = [users EXCEPT ![r] = Remove(@, th["ws"].user)]
    /\ th' = [th EXCEPT !["ws"].pc = "close_push"]
    /\ UNCHANGED <<rooms, messages, connections, lk, hs, outbox, sessions, failsLeft, dropped>>

\* (mutant: the leave is broadcast and not pushed onto the history)
OnCloseAnnounceOnly ==
    LET r == th["ws"].room
        text == LeaveText(th["ws"].nick)
    IN
    /\ th["ws"].pc = "close_push"
    /\ CanWrite(r, "messages")
    /\ th' = [th EXCEPT !["ws"].pc = "bcast", !["ws"].payload = SystemFrame(text, NewMsgId)]
    /\ UNCHANGED <<rooms, users, messages, connections, lk, hs, outbox, sessions, failsLeft,
                   dropped>>

\* lines 417-433: messages.write(); push the leave entry; the guard drops
OnClosePush ==
    LET r == th["ws"].room
        text == LeaveText(th["ws"].nick)
    IN
    /\ th["ws"].pc = "close_push"
    /\ CanWrite(r, "messages")
    /\ messages' = [messages EXCEPT ![r] =
           Push(@, ChatMessage(NewMsgId, r, "System", text, "SystemMessage"))]
    /\ th' = [th EXCEPT !["ws"].pc = "bcast", !["ws"].payload = SystemFrame(text, NewMsgId)]
    /\ UNCHANGED <<rooms, users, connections, lk, hs, outbox, sessions, failsLeft, dropped>>

\* ------------------------------------------------------------------- login
\* the user ids in use anywhere: Uuid::new_v4() returns none of them
UsedIds ==
    {s.id : s \in sessions} \cup {th[t].user : t \in Threads}
    \cup {hs[c].user_id : c \in Conns} \cup UNION {{x.id : x \in users[r]} : r \in Rooms}

\* Uuid::new_v4() of a user id: an id of the pool that is in use nowhere
new_v4 == CHOOSE u \in LoginIds \ UsedIds : TRUE

\* lines 158-162: the form is read, get_or_create_room (the Uuid of line 171
\* is drawn here: it depends on nothing)
LoginStart(t, r, n) ==
    /\ th[t].pc = "idle"
    /\ MayAppend
    /\ LoginIds \ UsedIds # {}
    /\ rooms' = get_or_create_room(rooms, r)
    /\ th' = [th EXCEPT ![t] = Holding(Enter("login", "login_check", 0, r, new_v4, n, <<>>), rooms')]
    /\ UNCHANGED <<users, messages, connections, lk, hs, outbox, sessions, failsLeft, dropped>>

\* users.values().any(|user| user.nickname == nickname && user.room_id == room_id)
NicknameTaken(m, nickname, room_id) ==
    \E user \in m : user.nickname = nickname /\ user.room_id = room_id

\* (mutant: the taken branch has no return and login goes on to insert)
LoginCheckNoReturn(t) ==
    LET r == th[t].room IN
    /\ th[t].pc = "login_check"
    /\ CanRead(r, "users")
    /\ th' = [th EXCEPT ![t].pc = "login_insert"]
    /\ UNCHANGED <<rooms, users, messages, connections, lk, hs, outbox, sessions, failsLeft,
                   dropped>>

\* lines 163-177: users.read(); taken: redirect; otherwise the guard is dropped
LoginCheck(t) ==
    LET r == th[t].room IN
    /\ th[t].pc = "login_check"
    /\ CanRead(r, "users")
    /\ IF NicknameTaken(users[r], th[t].nick, r)
       THEN th' = [th EXCEPT ![t] = Idle]
       ELSE th' = [th EXCEPT ![t].pc = "login_insert"]
    /\ UNCHANGED <<rooms, users, messages, connections, lk, hs, outbox, sessions, failsLeft, dropped>>

\* lines 178-183: users.write(); insert; the guard lives to the end of login
LoginInsert(t) ==
    LET r == th[t].room IN
    /\ th[t].pc = "login_insert"
    /\ CanWrite(r, "users")
    /\ users' = [users EXCEPT ![r] = Insert(@, User(th[t].user, th[t].nick, r))]
    /\ lk' = [lk EXCEPT ![r]["users"].w = t]
    /\ th' = [th EXCEPT ![t].pc = "login_push"]
    /\ UNCHANGED <<rooms, messages, connections, hs, outbox, sessions, failsLeft, dropped>>

\* lines 186-200: messages.write() under the users guard; push the join entry
LoginPush(t) ==
    LET r == th[t].room
        text == JoinText(th[t].nick)
    IN
    /\ th[t].pc = "login_push"
    /\ CanWrite(r, "messages")
    /\ messages' = [messages EXCEPT ![r] =
           Push(@, ChatMessage(NewMsgId, r, "System", text, "SystemMessage"))]
    /\ lk' = [lk EXCEPT ![r]["messages"].w = t]
    /\ th' = [th EXCEPT ![t].pc = "bcast", ![t].payload = SystemFrame(text, NewMsgId)]
    /\ UNCHANGED <<rooms, users, connections, hs, outbox, sessions, failsLeft, dropped>>

\* ------------------------------------------------------------------ logout
\* lines 207-209: the request carries the cookies of a session; get_or_create_room
LogoutStart(t, s) ==
    /\ th[t].pc = "idle"
    /\ MayAppend
    /\ s \in sessions
    /\ rooms' = get_or_create_room(rooms, s.room_id)
    /\ th' = [th EXCEPT ![t] = Holding(Enter("logout", "logout_users", 0, s.room_id, s.id, s.nickname, <<>>), rooms')]
    /\ UNCHANGED <<users, messages, connections, lk, hs, outbox, sessions, failsLeft, dropped>>

\* lines 210-211: users.write(); remove; the guard lives to the end of the block
LogoutUsers(t) ==
    LET r == th[t].room IN
    /\ th[t].pc = "logout_users"
    /\ CanWrite(r, "users")
    /\ users' = [users EXCEPT ![r] = Remove(@, th[t].user)]
    /\ lk' = [lk EXCEPT ![r]["users"].w = t]
    /\ th' = [th EXCEPT ![t].pc = "logout_push"]
    /\ UNCHANGED <<rooms, messages, connections, hs, outbox, sessions, failsLeft, dropped>>

\* lines 214-228: messages.write() under the users guard; push the leave entry
LogoutPush(t) ==
    LET r == th[t].room
        text == LeaveText(th[t].nick)
    IN
    /\ th[t].pc = "logout_push"
    /\ CanWrite(r, "messages")
    /\ messages' = [messages EXCEPT ![r] =
           Push(@, ChatMessage(NewMsgId, r, "System", text, "SystemMessage"))]
    /\ lk' = [lk EXCEPT ![r]["messages"].w = t]
    /\ th' = [th EXCEPT ![t].pc = "bcast", ![t].payload = SystemFrame(text, NewMsgId)]
    /\ UNCHANGED <<rooms, users, connections, hs, outbox, sessions, failsLeft, dropped>>

\* the lock of its room that a handler at pc takes with its next step
Acquires(pc) ==
    CASE pc \in {"open_reg", "close_dereg", "close_check", "bcast"} -> "connections"
      [] pc \in {"open_users", "close_users", "login_check", "login_insert",
                 "logout_users"} -> "users"
      [] pc \in {"open_replay", "open_push", "msg_push", "close_push", "login_push",
                 "logout_push"} -> "messages"
      [] OTHER -> Absent

\* the steps whose lock is taken with read(); the other steps of Acquires
\* take theirs with write()
ReadSteps == {"open_replay", "close_check", "login_check", "bcast"}

\* ---------------------------------------------------------- specifications
\* the WebSocket thread: the callbacks of every connection, one at a time
\* (inbound frames that are slash commands or are dropped apart)
WsNext ==
    \/ \E c \in Conns, r \in Rooms, ident \in Presentable : OnOpenStart(c, r, ident)
    \/ OnOpenRegister
    \/ OnOpenReplay
    \/ OnOpenUsers
    \/ OnOpenPush
    \/ \E c \in Conns, m \in Inbound : OnMessageStart(c, m)
    \/ OnMessagePush
    \/ \E c \in Conns : OnCloseStart(c)
    \/ OnCloseDeregister
    \/ OnCloseCheck
    \/ OnCloseUsers
    \/ OnClosePush
    \/ BroadcastBegin("ws")
    \/ BroadcastSend("ws")

\* an HTTP worker thread: login and logout requests
HttpNext(t) ==
    \/ \E r \in Rooms, n \in Nicks : LoginStart(t, r, n)
    \/ LoginCheck(t)
    \/ LoginInsert(t)
    \/ LoginPush(t)
    \/ \E s \in sessions : LogoutStart(t, s)
    \/ LogoutUsers(t)
    \/ LogoutPush(t)
    \/ BroadcastBegin(t)
    \/ BroadcastSend(t)

\* inbound frames that are slash commands
CmdNext == \E c \in Conns, m \in Inbound : OnMessageCommand(c, m)

\* inbound frames that on_message drops
DropNext == \E c \in Conns, m \in Inbound : OnMessageDrop(c, m)

\* on_close called a second time
CloseNext == \E c \in Conns : OnCloseAgain(c)

\* sends may fail
InitFail ==
    /\ rooms = {}
    /\ users = [r \in Rooms |-> {}]
    /\ messages = [r \in Rooms |-> <<>>]
    /\ connections = [r \in Rooms |-> <<>>]
    /\ lk = [r \in Rooms |-> [n \in LockNames |-> Free]]
    /\ hs = [c \in Conns |-> NewHandler]
    /\ outbox = [c \in Conns |-> <<>>]
    /\ th = [t \in Threads |-> Idle]
    /\ sessions = {}
    /\ failsLeft = MaxFail
    /\ dropped = 0

Next == WsNext \/ \E t \in Https : HttpNext(t)

\* every handler on its thread; chat texts only, every send succeeds
Spec == Init /\ [][Next]_vars

\* the WebSocket thread alone, slash commands included; every send succeeds
SpecCmd == Init /\ [][WsNext \/ CmdNext]_vars

\* a handler that has started takes its next step
Continue(t) ==
    /\ th[t].pc # "idle"
    /\ IF t = "ws" THEN WsNext ELSE HttpNext(t)

\* Spec with every thread scheduled: a handler whose next step stays possible
\* takes it (the OS runs every thread; a lock that stays free is taken)
SpecLive == Init /\ [][Next]_vars /\ \A t \in Threads : WF_vars(Continue(t))

\* the WebSocket thread alone, with on_close run twice; every send succeeds
SpecClose == Init /\ [][WsNext \/ CloseNext]_vars

\* the WebSocket thread and one HTTP worker, with the inbound frames that are
\* dropped; every send succeeds
SpecDrop == Init /\ [][WsNext \/ DropNext \/ HttpNext("h1")]_vars

\* the WebSocket thread and one HTTP worker; chat texts only, sends may fail
SpecFail == InitFail /\ [][WsNext \/ HttpNext("h1")]_vars

\* ------------------------------------------------------------ observations
Quiescent == \A t \in Threads : th[t].pc = "idle"

\* connection c is in room r's connection list
Registered(r, c) == \E i \in DOMAIN connections[r] : connections[r][i] = c

\* a connection other than c, opened with user id u, is in room r's list
OtherConnectionOf(r, u, c) ==
    \E d \in Conns \ {c} : Registered(r, d) /\ hs[d].user_id = u

\* the "ws" thread takes this step
WsStep == th'["ws"] # th["ws"]

\* the entries of history h whose content is text
Entries(h, text) == {i \in DOMAIN h : h[i].content = text}

\* (C1) While a user id has another connection registered in the room, the
\* on_close of one of its connections removes no User, appends nothing and
\* sends nothing.
C1_CloseOfOneOfTwoIsSilent ==
    [][ ( /\ WsStep
          /\ th["ws"].op = "on_close"
          /\ OtherConnectionOf(th["ws"].room, th["ws"].user, th["ws"].conn) )
        => (users' = users /\ messages' = messages /\ outbox' = outbox) ]_vars

\* (C2) on_close appends a leave entry only when it closes the user's last
\* connection: after the step no connection of that user id is registered.
C2_LeaveOnlyAtLastClose ==
    [][ ( /\ WsStep
          /\ th["ws"].op = "on_close"
          /\ messages'[th["ws"].room] # messages[th["ws"].room] )
        => ~OtherConnectionOf(th["ws"].room, th["ws"].user, th["ws"].conn) ]_vars

\* (C3) With no handler running, a user id is a key of a room's users map
\* exactly if a connection opened with that user id is registered in the room.
C3_UserIffConnection ==
    Quiescent =>
        \A r \in Rooms, u \in {i[1] : i \in Identities} \cup LoginIds :
            (\E x \in users[r] : x.id = u)
            <=> (\E c \in Conns : Registered(r, c) /\ hs[c].user_id = u)

\* the steps of on_open before it looks at the users map
BeforeUsers == {"open_reg", "open_replay"}

\* an entry of connection c's outbox that was not there before the step
NewEntries(c) == {outbox'[c][i] : i \in (Len(outbox[c]) + 1) .. Len(outbox'[c])}

\* (C4) One join per user, not per connection: an on_open that finds its user
\* id in the users map inserts nothing, appends nothing and sends nothing and
\* is over; one that does not find it inserts one User and goes on to append
\* and broadcast one join entry; up to there on_open sends replay frames
\* only; and the users map never holds two Users under one id.
C4_JoinOncePerUser ==
    /\ [](\A r \in Rooms : \A x, y \in users[r] : x.id = y.id => x = y)
    /\ [][ (WsStep /\ th["ws"].op = "on_open") =>
           LET r == th["ws"].room
               u == th["ws"].user
               present == \E x \in users[r] : x.id = u
           IN /\ th["ws"].pc \in BeforeUsers =>
                    /\ users' = users /\ messages' = messages
                    /\ \A c \in Conns : \A e \in NewEntries(c) :
                          c = th["ws"].conn /\ e.frame.via = "replay"
              /\ (th["ws"].pc = "open_users" /\ present) =>
                    /\ th'["ws"].pc = "idle"
                    /\ users' = users /\ messages' = messages /\ outbox' = outbox
              /\ (th["ws"].pc = "open_users" /\ ~present) =>
                    /\ th'["ws"].pc = "open_push"
                    /\ Cardinality({x \in users'[r] : x.id = u}) = 1
                    /\ messages' = messages /\ outbox' = outbox
              /\ th["ws"].pc = "open_push" =>
                    /\ Len(messages'[r]) = Len(messages[r]) + 1
                    /\ messages'[r][Len(messages'[r])].content = JoinText(th["ws"].nick)
                    /\ users' = users /\ outbox' = outbox
              /\ th["ws"].pc \in {"bcast", "send"} =>
                    /\ users' = users /\ messages' = messages
                    /\ \A c \in Conns : \A e \in NewEntries(c) :
                          e.frame.content = JoinText(th["ws"].nick)
         ]_vars

\* two connections of one user id are registered in one room whose history
\* holds one join entry and whose users map holds one User
C4_Witness ==
    \E r \in Rooms :
        /\ Quiescent
        /\ connections[r] = <<1, 2>>
        /\ hs[1].user_id = hs[2].user_id
        /\ Cardinality(users[r]) = 1
        /\ Cardinality(Entries(messages[r], JoinText(hs[1].nickname))) = 1
        /\ Len(outbox[2]) = 1

\* (C5) The replay frames come first: no connection is sent a broadcast frame
\* before a replay frame.
C5_ReplayBeforeLive ==
    \A c \in Conns : \A i, j \in DOMAIN outbox[c] :
        (i < j /\ outbox[c][j].frame.via = "replay") => outbox[c][i].frame.via = "replay"

\* (C6) No history entry is sent twice to one connection.
C6_AtMostOnce ==
    \A c \in Conns : \A i, j \in DOMAIN outbox[c] :
        (outbox[c][i].frame.of # 0 /\ outbox[c][i].frame.of = outbox[c][j].frame.of) => i = j

\* (C7) Every connection is sent the broadcasts of its room in append order
\* (the ids of a room's history entries grow in append order).
C7_BroadcastInAppendOrder ==
    \A c \in Conns : \A i, j \in DOMAIN outbox[c] :
        (i < j /\ outbox[c][i].frame.via = "broadcast" /\ outbox[c][j].frame.via = "broadcast")
            => outbox[c][i].frame.of < outbox[c][j].frame.of

\* the rooms thread t works on before or after the step
RoomsOf(t) == {th[t].room, th'[t].room}

\* (C8) Room isolation: every frame of a history entry that a connection is
\* sent is of an entry of the history of the room the connection opened in; a
\* connection is registered in no other room; and a step a handler takes for
\* room A changes the users, history and connection list of no other room
\* and sends to no connection of another room.
C8_RoomIsolation ==
    /\ [](\A c \in Conns : \A i \in DOMAIN outbox[c] :
            outbox[c][i].frame.of # 0 =>
                \E k \in DOMAIN messages[hs[c].room_id] :
                    /\ messages[hs[c].room_id][k].id = outbox[c][i].frame.of
                    /\ messages[hs[c].room_id][k].content = outbox[c][i].frame.content)
    /\ [](\A r \in Rooms, c \in Conns : Registered(r, c) => hs[c].room_id = r)
    /\ [][ \A t \in Threads : th'[t] # th[t] =>
             /\ \A b \in Rooms \ RoomsOf(t) :
                   /\ users'[b] = users[b]
                   /\ messages'[b] = messages[b]
                   /\ connections'[b] = connections[b]
             /\ \A c \in Conns :
                   outbox'[c] # outbox[c] => hs'[c].room_id \in RoomsOf(t)
         ]_vars

\* connection 1 is in room lobby and connection 2 in room dev; a user message
\* of lobby has reached connection 1 and nothing but dev's join connection 2
C8_Witness ==
    /\ Quiescent
    /\ connections = [lobby |-> <<1>>, dev |-> <<2>>]
    /\ \E i \in DOMAIN outbox[1] : outbox[1][i].frame.type = "message"
    /\ Len(messages["lobby"]) = 2
    /\ Len(outbox[2]) = 1

\* (C9) Command isolation: handling an inbound frame whose content starts
\* with '/' sends one frame, to the connection the frame came from, and
\* changes no room's users, history or connection list; and whenever a reply
\* frame is sent, nothing is sent to any other connection.
C9_CommandIsolation ==
    /\ [][ \A c \in Conns, m \in Inbound :
             (Usable(m) /\ StartsWithSlash(m.content) /\ OnMessageCommand(c, m)) =>
                /\ users' = users /\ messages' = messages /\ connections' = connections
                /\ \A d \in Conns \ {c} : outbox'[d] = outbox[d]
                /\ Len(outbox'[c]) = Len(outbox[c]) + 1
         ]_vars
    /\ [][ \A c \in Conns :
             (\E e \in NewEntries(c) : e.frame.via = "reply") =>
                /\ users' = users /\ messages' = messages /\ connections' = connections
                /\ \A d \in Conns \ {c} : outbox'[d] = outbox[d]
         ]_vars

\* both connections are registered in one room; connection 1 has been sent a
\* command reply and connection 2 nothing but history and broadcasts
C9_Witness ==
    \E r \in Rooms :
        /\ Quiescent
        /\ connections[r] = <<1, 2>>
        /\ \E i \in DOMAIN outbox[1] : outbox[1][i].frame.type = "command"
        /\ \A i \in DOMAIN outbox[2] : outbox[2][i].frame.via # "reply"

\* the send attempts of frame f on connection c
Attempts(box, c, f) == {i \in DOMAIN box[c] : box[c][i].frame = f}

\* (C10) Broadcast completeness under partial failure: when a broadcast
\* returns, one send of its payload has been attempted on every connection
\* of the room's list, whatever sends failed, and the handler is over; a
\* failed send leaves the broadcast in its loop unless it was the last.
C10_BroadcastCompleteness ==
    [][ \A t \in Threads : (th[t].pc = "send" /\ th'[t] # th[t]) =>
          LET r == th[t].room
              f == th[t].payload
          IN /\ th'[t].pc \in {"send", "idle"}
             /\ th'[t].pc = "idle" =>
                   \A i \in DOMAIN connections[r] :
                       Cardinality(Attempts(outbox', connections[r][i], f)) = 1
             /\ th'[t].pc = "send" =>
                   /\ th'[t].todo # <<>>
                   /\ \A i \in DOMAIN connections[r] :
                         \/ Cardinality(Attempts(outbox', connections[r][i], f)) = 1
                         \/ \E k \in DOMAIN th'[t].todo : th'[t].todo[k] = connections[r][i]
      ]_vars

\* a broadcast frame whose send to connection 1 failed has reached connection 2
C10_Witness ==
    \E i \in DOMAIN outbox[1], j \in DOMAIN outbox[2] :
        /\ outbox[1][i].frame.via = "broadcast"
        /\ outbox[1][i].frame = outbox[2][j].frame
        /\ ~outbox[1][i].ok
        /\ outbox[2][j].ok
        /\ Quiescent

\* history g starts with history h
IsPrefix(h, g) == Len(h) <= Len(g) /\ SubSeq(g, 1, Len(h)) = h

\* (C11) A room's history is append-only: across every step the history before
\* the step is a prefix of the history after it, and a step adds at most one
\* entry.
C11_HistoryAppendOnly ==
    [][ \A r \in Rooms :
          /\ IsPrefix(messages[r], messages'[r])
          /\ Len(messages'[r]) <= Len(messages[r]) + 1 ]_vars

\* a history that on_open, on_message and on_close have each appended to
C11_Witness ==
    \E r \in Rooms :
        /\ Len(messages[r]) = 3
        /\ messages[r][1].content = JoinText("alice")
        /\ messages[r][2].message_type = "UserMessage"
        /\ messages[r][3].content = LeaveText("alice")

\* (C12) One room state per room id: the registry holds at most one entry per
\* room id; no step removes or replaces an entry; and the RoomState a running
\* handler got from get_or_create_room is the one the registry holds for its
\* room id, so that all callers for a room id share one users map, one history
\* and one connection list.
C12_OneRoomPerId ==
    /\ [](\A e, f \in rooms : e.id = f.id => e = f)
    /\ [](\A t \in Threads : th[t].pc # "idle" =>
            [id |-> th[t].room, state |-> th[t].rs] \in rooms)
    /\ [][\A e \in rooms : e \in rooms']_vars

\* the WebSocket thread and an HTTP worker run handlers of one room, which
\* both asked the registry for, and the registry holds the other room too
C12_Witness ==
    /\ \A t \in {"ws", "h1"} :
          /\ th[t].pc # "idle"
          /\ th[t].room = "lobby"
          /\ th[t].rs = Get(rooms, "lobby")
    /\ \E e \in rooms : e.id = "dev"

\* on_close of connection c has run its retain
Deregistered(c) ==
    /\ hs[c].st = "closed"
    /\ ~(th["ws"].op = "on_close" /\ th["ws"].conn = c /\ th["ws"].pc = "close_dereg")

\* (C13) A closing connection leaves the connection list before the leave is
\* broadcast: once on_close has run its retain the connection is in no list,
\* for good; every broadcast frame is sent to a connection that is in its
\* room's list at that moment; and no step of on_close after the retain, the
\* broadcast of the leave included, sends to the closing connection.
C13_DeregisteredBeforeLeave ==
    /\ [](\A c \in Conns : Deregistered(c) => \A r \in Rooms : ~Registered(r, c))
    /\ [][ \A c \in Conns :
             (\E e \in NewEntries(c) : e.frame.via = "broadcast") =>
                 Registered(hs[c].room_id, c) /\ ~Deregistered(c) ]_vars
    /\ [][ (WsStep /\ th["ws"].op = "on_close") =>
             outbox'[th["ws"].conn] = outbox[th["ws"].conn] ]_vars

\* connection 2 has closed; its leave has been sent to connection 1, which is
\* still registered, and not to connection 2
C13_Witness ==
    /\ Quiescent
    /\ hs[2].st = "closed"
    /\ Registered(hs[2].room_id, 1)
    /\ \E i \in DOMAIN outbox[1] :
          /\ outbox[1][i].frame.via = "broadcast"
          /\ outbox[1][i].frame.content = LeaveText(hs[2].nickname)
    /\ \A i \in DOMAIN outbox[2] : outbox[2][i].frame.content # LeaveText(hs[2].nickname)

\* the last entry of history h
Last(h) == h[Len(h)]

\* (C14) on_message of a chat text: the handler is entered with the text of
\* the inbound frame; its push appends one UserMessage, under an id no entry
\* of the room carries, with the connection's nickname as sender and the text
\* as content, and builds a message frame of that entry; no other step of the
\* handler touches the history; and when its broadcast returns, one send of
\* that frame has been made to every connection of the room's list, the
\* sender's among them, and none to any other connection.
C14_UserMessageAppendedAndBroadcast ==
    /\ [][ \A c \in Conns, m \in Inbound :
             (Usable(m) /\ ~StartsWithSlash(m.content) /\ th["ws"].pc = "idle"
              /\ th'["ws"].op = "on_message" /\ th'["ws"].conn = c
              /\ th'["ws"].content = m.content) =>
                 /\ th'["ws"].pc = "msg_push"
                 /\ th'["ws"].room = hs[c].room_id
                 /\ th'["ws"].nick = hs[c].nickname
                 /\ messages' = messages /\ users' = users
                 /\ connections' = connections /\ outbox' = outbox ]_vars
    /\ [][ (WsStep /\ th["ws"].op = "on_message") =>
             LET r == th["ws"].room
                 c == th["ws"].conn
                 f == th'["ws"].payload
             IN /\ users' = users /\ connections' = connections
                /\ th["ws"].pc = "msg_push" =>
                      /\ Len(messages'[r]) = Len(messages[r]) + 1
                      /\ IsPrefix(messages[r], messages'[r])
                      /\ Last(messages'[r]).message_type = "UserMessage"
                      /\ Last(messages'[r]).sender = hs[c].nickname
                      /\ Last(messages'[r]).content = th["ws"].content
                      /\ Last(messages'[r]).room_id = r
                      /\ \A i \in DOMAIN messages[r] :
                            messages[r][i].id # Last(messages'[r]).id
                      /\ f.type = "message" /\ f.id = Last(messages'[r]).id
                      /\ f.sender = hs[c].nickname /\ f.content = th["ws"].content
                      /\ outbox' = outbox
                /\ th["ws"].pc # "msg_push" =>
                      /\ messages' = messages
                      /\ th'["ws"].pc # "idle" => th'["ws"].payload = th["ws"].payload
                /\ th'["ws"].pc = "idle" =>
                      /\ Registered(r, c)
                      /\ \A d \in Conns :
                            Cardinality(Attempts(outbox', d, th["ws"].payload))
                                = IF Registered(r, d) THEN 1 ELSE 0
           ]_vars

\* two connections of one room have both received the message frame of a
\* UserMessage that connection 1 sent and the history holds
C14_Witness ==
    \E r \in Rooms : \E k \in DOMAIN messages[r] :
        /\ Quiescent
        /\ connections[r] = <<1, 2>>
        /\ messages[r][k].message_type = "UserMessage"
        /\ messages[r][k].sender = hs[1].nickname
        /\ messages[r][k].content = <<"hi">>
        /\ \A d \in Conns : \E i \in DOMAIN outbox[d] :
              /\ outbox[d][i].ok
              /\ outbox[d][i].frame.type = "message"
              /\ outbox[d][i].frame.id = messages[r][k].id
              /\ outbox[d][i].frame.content = <<"hi">>

\* (C15) An inbound frame that cannot be turned into text, does not parse as
\* JSON or has no string under "content" is dropped: handling it changes no
\* room's users, history or connection list, no registry entry and no lock,
\* sends nothing to any connection, and returns with the connection open and
\* the WebSocket thread free for the next callback.
C15_UnusableFrameDropped ==
    /\ [][ \A c \in Conns, m \in Inbound :
             (~Usable(m) /\ OnMessageDrop(c, m)) =>
                 /\ users' = users /\ messages' = messages
                 /\ connections' = connections /\ rooms' = rooms /\ lk' = lk
                 /\ outbox' = outbox
                 /\ hs' = hs /\ hs[c].st = "open"
                 /\ th' = th /\ th["ws"].pc = "idle" ]_vars
    /\ [][ dropped' # dropped =>
             /\ users' = users /\ messages' = messages
             /\ connections' = connections /\ outbox' = outbox
             /\ hs' = hs /\ th' = th ]_vars

\* a frame has been dropped on a connection that is registered in a room with
\* history, and the connection has been sent nothing but the replay and the
\* broadcast of its own join
C15_Witness ==
    /\ Quiescent
    /\ dropped > 0
    /\ hs[1].st = "open"
    /\ Registered(hs[1].room_id, 1)
    /\ Len(messages[hs[1].room_id]) = 1
    /\ Len(outbox[1]) = 1

\* the keys of frame f that go over the wire
Wire(f) == [type |-> f.type, id |-> f.id, sender |-> f.sender,
            content |-> f.content, command |-> f.command]

\* a frame with the keys "type" and "command" and no other
WireCommand(command) == [type |-> "command", id |-> 0, sender |-> Absent,
                         content |-> <<>>, command |-> command]

\* a frame with the keys "type" and "content" and no other
WireSystem(content) == [type |-> "system", id |-> 0, sender |-> Absent,
                        content |-> content, command |-> Absent]

\* (C16) Command dispatch: handling an inbound frame whose content starts
\* with '/' makes one send, to the connection it came from, of a frame that
\* the raw text alone decides: "/clear" gives a command frame "clear",
\* "/logout" a command frame "logout", and any other text ("/Clear", "/clear "
\* with a trailing space and "/" among them) a system frame whose content is
\* "Unknown command: " followed by that text.
C16_CommandDispatch ==
    [][ \A c \in Conns, m \in Inbound :
          (Usable(m) /\ StartsWithSlash(m.content) /\ OnMessageCommand(c, m)) =>
             /\ Len(outbox'[c]) = Len(outbox[c]) + 1
             /\ IsPrefix(outbox[c], outbox'[c])
             /\ LET f == Wire(Last(outbox'[c]).frame)
                IN /\ m.content = <<"/", "clear">> => f = WireCommand("clear")
                   /\ m.content = <<"/", "logout">> => f = WireCommand("logout")
                   /\ m.content \notin {<<"/", "clear">>, <<"/", "logout">>} =>
                         f = WireSystem(<<"Unknown command:">> \o m.content)
                   /\ m.content = <<"/", "Clear">> =>
                         f = WireSystem(<<"Unknown command:", "/", "Clear">>)
                   /\ m.content = <<"/", "clear", " ">> =>
                         f = WireSystem(<<"Unknown command:", "/", "clear", " ">>)
                   /\ m.content = <<"/">> =>
                         f = WireSystem(<<"Unknown command:", "/">>)
      ]_vars

\* "/clear " with a trailing space has been answered as an unknown command
C16_Witness ==
    \E c \in Conns : \E i \in DOMAIN outbox[c] :
        /\ outbox[c][i].frame.via = "reply"
        /\ outbox[c][i].frame.type = "system"
        /\ outbox[c][i].frame.content = <<"Unknown command:", "/", "clear", " ">>

\* the locks thread t holds a guard of
Held(t) == {n \in LockNames : \E r \in Rooms : lk[r][n].w = t \/ t \in lk[r][n].r}

\* lock m comes before lock n in order
ComesBefore(order, m, n) ==
    \E i, j \in DOMAIN order : i < j /\ order[i] = m /\ order[j] = n

\* every step that takes a lock takes one that comes after all the locks its
\* thread holds
TakenInOrder(order) ==
    \A t \in Threads :
        (th'[t] # th[t] /\ Acquires(th[t].pc) # Absent) =>
            \A m \in Held(t) : ComesBefore(order, m, Acquires(th[t].pc))

\* (C17) as stated: a handler that holds locks of a room takes a further one
\* only in the order connections, users, messages.
C17_OrderConnectionsUsersMessages ==
    [][TakenInOrder(<<"connections", "users", "messages">>)]_vars

\* (C17) as amended: a handler that holds locks of a room takes a further one
\* only in the order users, messages, connections.
C17_OrderUsersMessagesConnections ==
    [][TakenInOrder(<<"users", "messages", "connections">>)]_vars

\* a handler holds the three locks of its room at once
C17_Witness ==
    \E t \in Threads : Held(t) = LockNames /\ th[t].pc = "send"

\* (C18) Closing is idempotent: no step of an on_close that runs a second
\* time for a connection changes a room's users, history or connection list
\* or sends a frame; and when an on_close returns, whatever callbacks of the
\* connection ran before it, the connection is in no list and its user id is
\* a key of the users map only if another connection of it is registered.
C18_CloseIdempotent ==
    /\ [][ (WsStep /\ th["ws"].op = "on_close" /\ hs[th["ws"].conn].st = "reclosed") =>
             /\ users' = users /\ messages' = messages
             /\ connections' = connections /\ outbox' = outbox ]_vars
    /\ [][ (WsStep /\ th["ws"].op = "on_close" /\ th'["ws"].pc = "idle") =>
             LET r == th["ws"].room
                 c == th["ws"].conn
                 u == th["ws"].user
             IN /\ \A q \in Rooms : \A i \in DOMAIN connections'[q] : connections'[q][i] # c
                /\ (\E x \in users'[r] : x.id = u) => OtherConnectionOf(r, u, c) ]_vars

\* (C19) Nicknames are unique at the login boundary: no room's users map holds
\* two Users that login inserted (their ids are login's Uuids) under one
\* nickname; and a login that finds its nickname held by a User of the room
\* returns without inserting, appending or sending anything.
C19_LoginNicknameUnique ==
    /\ [](\A r \in Rooms : \A x, y \in users[r] :
            (x.id \in LoginIds /\ y.id \in LoginIds /\ x.nickname = y.nickname) => x = y)
    /\ [][ \A t \in Https :
             (th'[t] # th[t] /\ th[t].pc = "login_check"
              /\ \E x \in users[th[t].room] : x.nickname = th[t].nick) =>
                 /\ th'[t].pc = "idle"
                 /\ users' = users /\ messages' = messages /\ outbox' = outbox
                 /\ sessions' = sessions ]_vars

\* the entries of history h that are SystemMessages with content text under id
SlotsOf(h, id, text) ==
    {k \in DOMAIN h : /\ h[k].id = id
                      /\ h[k].content = text
                      /\ h[k].message_type = "SystemMessage"
                      /\ h[k].sender = "System"}

\* the join and leave texts of the nicknames in use
Announcements ==
    LET names == Nicks \cup {i[2] : i \in Identities}
    IN {JoinText(n) : n \in names} \cup {LeaveText(n) : n \in names}

\* (C20) Announcements occupy slots of the history: a step that appends a
\* SystemMessage appends that one entry, a join or leave text, and leaves its
\* handler about to broadcast a system frame with the entry's content; that
\* handler then runs the broadcast over the room's connection list and does
\* nothing else; and every system frame a broadcast sends is the frame its
\* handler built at its push, with the content of exactly one SystemMessage
\* of that room's history.
C20_AnnouncementsInHistory ==
    /\ [][ \A t \in Threads : \A r \in Rooms :
             (th'[t] # th[t] /\ messages'[r] # messages[r]
              /\ Last(messages'[r]).message_type = "SystemMessage") =>
                 /\ Len(messages'[r]) = Len(messages[r]) + 1
                 /\ IsPrefix(messages[r], messages'[r])
                 /\ Last(messages'[r]).content \in Announcements
                 /\ th'[t].room = r
                 /\ th'[t].pc = "bcast"
                 /\ Wire(th'[t].payload) = WireSystem(Last(messages'[r]).content)
                 /\ th'[t].payload.of = Last(messages'[r]).id
                 /\ Cardinality(SlotsOf(messages'[r], th'[t].payload.of,
                                        th'[t].payload.content)) = 1 ]_vars
    /\ [][ \A t \in Threads :
             (th'[t] # th[t] /\ th[t].pc = "bcast") =>
                 /\ messages' = messages
                 /\ IF connections[th[t].room] = <<>>
                    THEN th'[t].pc = "idle" /\ outbox' = outbox
                    ELSE /\ th'[t].pc = "send"
                         /\ th'[t].todo = connections[th[t].room]
                         /\ th'[t].payload = th[t].payload ]_vars
    /\ [][ \A t \in Threads :
             (th'[t] # th[t] /\ th[t].pc = "send") =>
                 \A c \in Conns : \A e \in NewEntries(c) :
                     /\ e.frame = th[t].payload
                     /\ e.frame.type = "system" =>
                           /\ e.frame.content \in Announcements
                           /\ Cardinality(SlotsOf(messages[th[t].room], e.frame.of,
                                                  e.frame.content)) = 1 ]_vars

\* connection 1 has been sent the join and the leave of connection 2's user,
\* and the history of their room holds one entry for each
C20_Witness ==
    \E r \in Rooms :
        /\ Quiescent
        /\ Registered(r, 1)
        /\ hs[2].room_id = r /\ hs[2].nickname = "bob" /\ hs[1].nickname = "alice"
        /\ \A text \in {JoinText("bob"), LeaveText("bob")} :
              /\ Cardinality(Entries(messages[r], text)) = 1
              /\ \E i \in DOMAIN outbox[1] :
                    /\ outbox[1][i].frame.via = "broadcast"
                    /\ outbox[1][i].frame.content = text
                    /\ outbox[1][i].ok

\* the places of connection c in the connection lists
Places(c) == {p \in Rooms \X (1 .. Cardinality(Conns) + 1) :
                 p[2] \in DOMAIN connections[p[1]] /\ connections[p[1]][p[2]] = c}

\* on_open of connection c has run its push and on_close has not been called
RegisteredOpen(c) ==
    /\ hs[c].st = "open"
    /\ ~(th["ws"].op = "on_open" /\ th["ws"].conn = c /\ th["ws"].pc = "open_reg")

\* (C21) A connection has at most one place in the connection lists; from the
\* push of its on_open to the call of its on_close it has exactly one, in the
\* list of the room its on_open resolved; before the push it has none; so the
\* list a broadcast runs over names no connection twice and no connection is
\* sent one broadcast frame twice.
C21_RegisteredOnce ==
    /\ \A c \in Conns :
          /\ Cardinality(Places(c)) <= 1
          /\ RegisteredOpen(c) =>
                /\ Cardinality(Places(c)) = 1
                /\ \A p \in Places(c) : p[1] = hs[c].room_id
          /\ (hs[c].st = "new" \/ (hs[c].st = "open" /\ ~RegisteredOpen(c))) =>
                Places(c) = {}
    /\ \A r \in Rooms : Len(connections[r]) <= Cardinality(Conns)
    /\ \A t \in Threads : \A i, j \in DOMAIN th[t].todo :
          th[t].todo[i] = th[t].todo[j] => i = j
    /\ \A c \in Conns : \A i, j \in DOMAIN outbox[c] :
          (outbox[c][i].frame.via = "broadcast" /\ outbox[c][i].frame = outbox[c][j].frame)
              => i = j

\* connection 1 has come and gone; connection 2 is open, has its one place
\* in the lists and has been sent two broadcasts
C21_Witness ==
    /\ Quiescent
    /\ hs[1].st = "closed" /\ Places(1) = {}
    /\ hs[2].st = "open" /\ Places(2) = {<<hs[2].room_id, 1>>}
    /\ Cardinality({i \in DOMAIN outbox[2] : outbox[2][i].frame.via = "broadcast"}) = 2

\* the threads that hold a guard of lock n of room r
Holders(r, n) ==
    (IF lk[r][n].w = NoThread THEN {} ELSE {lk[r][n].w}) \cup lk[r][n].r

\* the threads whose next step is a write() of lock n of room r
WritersWaiting(r, n) ==
    {u \in Threads : /\ th[u].room = r
                     /\ Acquires(th[u].pc) = n
                     /\ th[u].pc \notin ReadSteps}

\* the threads that thread t's next step may have to wait for: a write() waits
\* for every holder, a read() for the writer, and, parking_lot letting no
\* reader in past a parked writer, for the writers waiting on readers
WaitsOn(t) ==
    LET r == th[t].room
        n == Acquires(th[t].pc)
    IN IF n = Absent THEN {}
       ELSE IF th[t].pc \notin ReadSteps THEN Holders(r, n)
       ELSE IF lk[r][n].w # NoThread THEN {lk[r][n].w}
       ELSE IF lk[r][n].r # {} THEN WritersWaiting(r, n) \ {t}
       ELSE {}

\* every thread of S waits for a thread of S
Deadlocked(S) == S # {} /\ \A t \in S : WaitsOn(t) \cap S # {}

\* (C22) Deadlock freedom: in no reachable state is there a set of handlers
\* each of which waits for a lock that another of the set holds or waits
\* for; a thread between two handlers holds no lock; a handler that is not
\* waiting has its next step to take; and, every thread being scheduled,
\* every handler that has started returns.
C22_DeadlockFree ==
    /\ [](\A S \in SUBSET Threads : ~Deadlocked(S))
    /\ [](\A t \in Threads : th[t].pc = "idle" => Held(t) = {})
    /\ [](\A t \in Threads :
            (th[t].pc # "idle" /\ WaitsOn(t) = {}) => ENABLED Continue(t))
    /\ \A t \in Threads : (th[t].pc # "idle") ~> (th[t].pc = "idle")

\* the WebSocket thread and an HTTP worker both wait for a lock of a room
\* that the other HTTP worker holds
C22_Witness ==
    /\ WaitsOn("ws") = {"h2"}
    /\ WaitsOn("h1") = {"h2"}
    /\ WaitsOn("h2") = {}
    /\ Held("h2") # {}

\* (C23) No Command is stored: every history entry is a UserMessage or a
\* SystemMessage and no UserMessage's content starts with '/'; every frame replayed
\* or broadcast is of type "message" or "system"; and a frame of type
\* "command" is a reply of handle_command, with command "clear" or "logout".
C23_NoCommandInHistory ==
    /\ \A r \in Rooms : \A k \in DOMAIN messages[r] :
          /\ messages[r][k].message_type \in {"UserMessage", "SystemMessage"}
          /\ messages[r][k].message_type = "UserMessage" =>
                ~StartsWithSlash(messages[r][k].content)
    /\ \A c \in Conns : \A i \in DOMAIN outbox[c] :
          LET f == outbox[c][i].frame
          IN /\ f.via \in {"replay", "broadcast"} => f.type \in {"message", "system"}
             /\ f.type = "command" =>
                   /\ f.via = "reply"
                   /\ f.command \in {"clear", "logout"}
                   /\ f.of = 0

\* connection 1 was answered a command frame; connection 2 opened after that
\* and was replayed the history, which holds nothing of the command
C23_Witness ==
    /\ Quiescent
    /\ Len(outbox[1]) >= 2
    /\ outbox[1][2].frame.type = "command"
    /\ Registered(hs[1].room_id, 2)
    /\ Len(outbox[2]) >= 2
    /\ outbox[2][1].frame.via = "replay"

\* room r has no User, no history entry and no connection
EmptyRoom(r) == users[r] = {} /\ messages[r] = <<>> /\ connections[r] = <<>>

\* (C24) A rejected login changes nothing but the registry: the step that
\* enters login changes no room's users, history or connection list, no lock
\* and no session and sends nothing, and adds to the registry at most an
\* entry for its room id, of an empty room that had none; and the check that
\* finds the nickname held by a User of the room returns at once, with the
\* registry, every room, every lock and every session as they were and
\* nothing sent.
C24_RejectedLoginChangesNothing ==
    /\ [][ \A t \in Https :
             (th[t].pc = "idle" /\ th'[t].op = "login") =>
                 LET r == th'[t].room
                 IN /\ users' = users /\ messages' = messages /\ connections' = connections
                    /\ outbox' = outbox /\ lk' = lk /\ sessions' = sessions /\ hs' = hs
                    /\ \A e \in rooms : e \in rooms'
                    /\ \A e \in rooms' \ rooms :
                          /\ e.id = r
                          /\ \A f \in rooms : f.id # r
                          /\ EmptyRoom(r)
                    /\ \E e \in rooms' : e.id = r ]_vars
    /\ [][ \A t \in Https :
             (th'[t] # th[t] /\ th[t].op = "login" /\ th[t].pc = "login_check"
              /\ \E x \in users[th[t].room] :
                    x.nickname = th[t].nick /\ x.room_id = th[t].room) =>
                 /\ th'[t] = Idle
                 /\ rooms' = rooms /\ users' = users /\ messages' = messages
                 /\ connections' = connections /\ outbox' = outbox
                 /\ lk' = lk /\ sessions' = sessions /\ hs' = hs
                 /\ Held(t) = {} ]_vars

\* a login for alice is at its check in a room where connection 1, registered
\* and with its join in the history, holds the nickname alice
C24_Witness ==
    \E t \in Https :
        /\ th[t].op = "login" /\ th[t].pc = "login_check"
        /\ th[t].nick = "alice"
        /\ th["ws"].pc = "idle"
        /\ Registered(th[t].room, 1)
        /\ \E x \in users[th[t].room] : x.nickname = "alice" /\ x.id = hs[1].user_id
        /\ Len(messages[th[t].room]) = 1
        /\ sessions = {}

====
